---------------------------- MODULE Spec2Model ----------------------------
(***************************************************************************)
(* Model of src/src/main.py: the module-level logging setup, the helpers   *)
(* add_func and multiply, and main(), which loads the .env file into the   *)
(* process environment, looks PASSWORD up, fails with OSError when it is   *)
(* undefined and otherwise builds two tables, logs them and returns 0.     *)
(* main() is modelled statement by statement; pc names the statement that  *)
(* runs next.                                                              *)
(***************************************************************************)
EXTENDS Integers, Sequences, FiniteSets, TLC

(* ------------------------------ bounds -------------------------------- *)

\* main() is invoked at most MaxCalls times in one behaviour.
MaxCalls == 2

\* add_func and multiply are applied to the integers -MaxInt..MaxInt.
MaxInt == 3

Ints == (0 - MaxInt)..MaxInt

\* The keys an environment or a .env file may define, and their values.
\* PASSWORD may be empty or not; HOME stands for every other key.
Keys == {"PASSWORD", "HOME"}

ValuesOf(k) == IF k = "PASSWORD" THEN {"", "secret"} ELSE {"/root"}

\* Every dict of strings over Keys: a function whose domain is the set of
\* keys it defines.
Dicts == UNION {[D -> {"", "secret", "/root"}] : D \in SUBSET Keys}

Environments == {d \in Dicts : \A k \in DOMAIN d : d[k] \in ValuesOf(k)}

(* --------------------------- Python values ---------------------------- *)

PyNone == [type |-> "NoneType"]

PyStr(s) == [type |-> "str", val |-> s]

PyInt(n) == [type |-> "int", val |-> n]

\* pandas.DataFrame(np.array(range(1, 10)).reshape(3, 3))
DfValue == [type |-> "DataFrame", shape |-> <<3, 3>>,
            val |-> << <<1, 2, 3>>, <<4, 5, 6>>, <<7, 8, 9>> >>]

\* pandas.DataFrame(data)
Df2Value == [type |-> "DataFrame", shape |-> <<4, 3>>,
             val |-> [Name |-> <<"Martha", "Tim", "Rob", "Georgia">>,
                      Maths |-> <<87, 91, 97, 95>>,
                      Science |-> <<83, 99, 84, 76>>]]

Digit(d) == <<"0", "1", "2", "3", "4", "5", "6", "7", "8", "9">>[d + 1]

RECURSIVE NatStr(_)
NatStr(n) == IF n < 10 THEN Digit(n) ELSE NatStr(n \div 10) \o Digit(n % 10)

\* str(n) of a Python int
IntStr(n) == IF n < 0 THEN "-" \o NatStr(0 - n) ELSE NatStr(n)

\* str(msg), as logging's LogRecord.getMessage() applies it to the object
\* a logger call was given.  The text of a table is not modelled beyond its
\* shape.
PyToStr(v) ==
    CASE v.type = "str" -> v.val
      [] v.type = "int" -> IntStr(v.val)
      [] v.type = "NoneType" -> "None"
      [] v.type = "DataFrame" ->
            "DataFrame[" \o IntStr(v.shape[1]) \o "x" \o IntStr(v.shape[2]) \o "]"

(* ------------------------------ helpers ------------------------------- *)

\* add_func with the operator mistyped.
add_func_sub(x, y) == x - y

add_func(x, y) == x + y

multiply(a, b) == a * b

(* ------------------------------ logging ------------------------------- *)

LevelNo(level) ==
    CASE level = "DEBUG" -> 10
      [] level = "INFO" -> 20
      [] level = "WARNING" -> 30
      [] level = "ERROR" -> 40

\* The logger left at the root logger's default level, WARNING.
LoggerLevelWarning == LevelNo("WARNING")

\* logger.setLevel(logging.INFO)
LoggerLevel == LevelNo("INFO")

\* logger.addHandler(console_handler); logger.addHandler(file_handler)
InitialHandlers == <<"console", "file">>

HandlerNames == {"console", "file"}

LogRecord(level, msg) == [level |-> level, msg |-> PyToStr(msg)]

\* Logger.callHandlers: every handler of the list, in order, appends the
\* record to its sink; a handler that is listed twice writes it twice.
RECURSIVE CallHandlers(_, _, _)
CallHandlers(s, hs, r) ==
    IF hs = <<>> THEN s
    ELSE CallHandlers([s EXCEPT ![Head(hs)] = Append(@, r)], Tail(hs), r)

\* Logger.log: a record below the logger's level is dropped.
LoggerLog(s, hs, level, msg) ==
    IF LevelNo(level) >= LoggerLevel
    THEN CallHandlers(s, hs, LogRecord(level, msg))
    ELSE s

(* ---------------------------- environment ----------------------------- *)

\* os.getenv with the key mistyped ("PASSWD"): no such key is ever defined.
GetenvTypo(e, k) == IF "PASSWD" \in DOMAIN e THEN PyStr(e["PASSWD"]) ELSE PyNone

\* os.getenv(key): the value, or None when the key is not defined.
Getenv(e, k) == IF k \in DOMAIN e THEN PyStr(e[k]) ELSE PyNone

\* load_dotenv(path, override): every key the file defines is set in the
\* environment; a key already defined there is overwritten only under
\* override.  A missing file is the empty dict.
LoadDotenv(e, f, override) ==
    [k \in DOMAIN e \cup DOMAIN f |->
        IF k \in DOMAIN f /\ (override \/ k \notin DOMAIN e) THEN f[k] ELSE e[k]]

\* load_dotenv's default, override=False.
OverrideOff == FALSE

\* main() passes override=True.
Override == TRUE

\* "not passwd": the empty string is taken for a missing value too.
IsFalsy(v) == v = PyNone \/ v = PyStr("")

\* "passwd is None"
IsNone(v) == v = PyNone

OSError(msg) == [type |-> "OSError", msg |-> msg]

(* ------------------------------- state -------------------------------- *)

VARIABLES
    env,        \* os.environ
    dotfile,    \* the key/value pairs of the .env file
    handlers,   \* the root logger's handler list
    sinks,      \* what each handler has written: handler name -> records
    pc,         \* the statement that runs next; "idle" between calls
    callee,     \* the function of the running call and its arguments
    passwd,     \* main's local
    df,         \* main's local
    df2,        \* main's local
    result,     \* the value the call returned (PyNone until it returns)
    exc,        \* the exception the call raised (PyNone unless it raised)
    ncalls,     \* invocations of main() so far
    lookups,    \* os.getenv calls made by the running invocation
    entry,      \* the environment, file and log length at the call's entry
    seen        \* per finished main() call: entry state and outcome

vars == <<env, dotfile, handlers, sinks, pc, callee, passwd, df, df2, result,
          exc, ncalls, lookups, entry, seen>>

NoCall == [fn |-> "none", args |-> <<>>]

NoEntry == [env |-> <<>>, dotfile |-> <<>>, mark |-> 0]

\* The records the running (or just finished) call has emitted.
Emitted == SubSeq(sinks["console"], entry.mark + 1, Len(sinks["console"]))

Outcome == [result |-> result, exc |-> exc, records |-> Emitted]


(* ------------------------------ initial ------------------------------- *)

\* After the module is imported: the logger has its two handlers, nothing
\* has been logged and no call is running.  The environment and the .env
\* file are whatever the process was started with.
InitState ==
    /\ handlers = InitialHandlers
    /\ sinks = [h \in HandlerNames |-> <<>>]
    /\ pc = "idle"
    /\ callee = NoCall
    /\ passwd = PyNone
    /\ df = PyNone
    /\ df2 = PyNone
    /\ result = PyNone
    /\ exc = PyNone
    /\ ncalls = 0
    /\ lookups = 0
    /\ entry = NoEntry
    /\ seen = {}

Init ==
    /\ env \in Environments
    /\ dotfile \in Environments
    /\ InitState

(* ------------------------- the caller's steps ------------------------- *)

\* os.environ[k] = v, done by the caller between two calls (the tests'
\* patch.dict).
Putenv(k, v) ==
    /\ pc = "idle"
    /\ env' = [j \in DOMAIN env \cup {k} |-> IF j = k THEN v ELSE env[j]]
    /\ UNCHANGED <<dotfile, handlers, sinks, pc, callee, passwd, df, df2,
                   result, exc, ncalls, lookups, entry, seen>>

\* del os.environ[k], done by the caller between two calls.
Unsetenv(k) ==
    /\ pc = "idle"
    /\ k \in DOMAIN env
    /\ env' = [j \in DOMAIN env \ {k} |-> env[j]]
    /\ UNCHANGED <<dotfile, handlers, sinks, pc, callee, passwd, df, df2,
                   result, exc, ncalls, lookups, entry, seen>>

\* The .env file is rewritten between two calls.
WriteDotenv(f) ==
    /\ pc = "idle"
    /\ dotfile' = f
    /\ UNCHANGED <<env, handlers, sinks, pc, callee, passwd, df, df2, result,
                   exc, ncalls, lookups, entry, seen>>

\* main() with the logging setup moved into it: every call adds the console
\* handler once more.
MainCallAddsHandler ==
    /\ pc = "idle"
    /\ ncalls < MaxCalls
    /\ pc' = "load_dotenv"
    /\ callee' = [fn |-> "main", args |-> <<>>]
    /\ ncalls' = ncalls + 1
    /\ lookups' = 0
    /\ entry' = [env |-> env, dotfile |-> dotfile,
                 mark |-> Len(sinks["console"])]
    /\ passwd' = PyNone
    /\ df' = PyNone
    /\ df2' = PyNone
    /\ result' = PyNone
    /\ exc' = PyNone
    /\ handlers' = Append(handlers, "console")
    /\ UNCHANGED <<env, dotfile, sinks, seen>>

\* main() is called: a fresh frame, no local bound yet.
MainCall ==
    /\ pc = "idle"
    /\ ncalls < MaxCalls
    /\ pc' = "load_dotenv"
    /\ callee' = [fn |-> "main", args |-> <<>>]
    /\ ncalls' = ncalls + 1
    /\ lookups' = 0
    /\ entry' = [env |-> env, dotfile |-> dotfile,
                 mark |-> Len(sinks["console"])]
    /\ passwd' = PyNone
    /\ df' = PyNone
    /\ df2' = PyNone
    /\ result' = PyNone
    /\ exc' = PyNone
    /\ UNCHANGED <<env, dotfile, handlers, sinks, seen>>

(* ------------------------------- main() ------------------------------- *)

\* load_dotenv(env_path, override=True)
LoadDotenvStep ==
    /\ pc = "load_dotenv"
    /\ env' = LoadDotenv(env, dotfile, Override)
    /\ pc' = "getenv"
    /\ UNCHANGED <<dotfile, handlers, sinks, callee, passwd, df, df2, result,
                   exc, ncalls, lookups, entry, seen>>

\* passwd = os.getenv("PASSWORD")
GetenvStep ==
    /\ pc = "getenv"
    /\ passwd' = Getenv(env, "PASSWORD")
    /\ lookups' = lookups + 1
    /\ pc' = "check"
    /\ UNCHANGED <<env, dotfile, handlers, sinks, callee, df, df2, result,
                   exc, ncalls, entry, seen>>

\* The check with a retry: a missing value is looked up once more.
CheckPasswdRetry ==
    /\ pc = "check"
    /\ pc' = IF IsNone(passwd)
             THEN (IF lookups < 2 THEN "getenv" ELSE "log_error")
             ELSE "log_loaded"
    /\ UNCHANGED <<env, dotfile, handlers, sinks, callee, passwd, df, df2,
                   result, exc, ncalls, lookups, entry, seen>>

\* if passwd is None: ... else: ...
CheckPasswd ==
    /\ pc = "check"
    /\ pc' = IF IsNone(passwd) THEN "log_error" ELSE "log_loaded"
    /\ UNCHANGED <<env, dotfile, handlers, sinks, callee, passwd, df, df2,
                   result, exc, ncalls, lookups, entry, seen>>

\* The failure logged with logger.debug, which the logger's level drops.
LogErrorAsDebug ==
    /\ pc = "log_error"
    /\ sinks' = LoggerLog(sinks, handlers, "DEBUG",
                          PyStr("PASSWORD environment variable not set"))
    /\ pc' = "raise"
    /\ UNCHANGED <<env, dotfile, handlers, callee, passwd, df, df2, result,
                   exc, ncalls, lookups, entry, seen>>

\* logger.error("PASSWORD environment variable not set")
LogError ==
    /\ pc = "log_error"
    /\ sinks' = LoggerLog(sinks, handlers, "ERROR",
                          PyStr("PASSWORD environment variable not set"))
    /\ pc' = "raise"
    /\ UNCHANGED <<env, dotfile, handlers, callee, passwd, df, df2, result,
                   exc, ncalls, lookups, entry, seen>>

\* The raise statement left out: the failure branch falls through to the
\* statements after the if.
RaiseOSErrorLeftOut ==
    /\ pc = "raise"
    /\ pc' = "df"
    /\ UNCHANGED <<env, dotfile, handlers, sinks, callee, passwd, df, df2,
                   result, exc, ncalls, lookups, entry, seen>>

\* raise OSError("PASSWORD environment variable not set")
RaiseOSError ==
    /\ pc = "raise"
    /\ exc' = OSError("PASSWORD environment variable not set")
    /\ pc' = "raised"
    /\ UNCHANGED <<env, dotfile, handlers, sinks, callee, passwd, df, df2,
                   result, ncalls, lookups, entry, seen>>

\* logger.info("Password loaded")
LogLoaded ==
    /\ pc = "log_loaded"
    /\ sinks' = LoggerLog(sinks, handlers, "INFO", PyStr("Password loaded"))
    /\ pc' = "df"
    /\ UNCHANGED <<env, dotfile, handlers, callee, passwd, df, df2, result,
                   exc, ncalls, lookups, entry, seen>>

\* df = pd.DataFrame(np.array(range(1, 10)).reshape(3, 3))
BuildDf ==
    /\ pc = "df"
    /\ df' = DfValue
    /\ pc' = "df2"
    /\ UNCHANGED <<env, dotfile, handlers, sinks, callee, passwd, df2, result,
                   exc, ncalls, lookups, entry, seen>>

\* data = {...}; df2 = pd.DataFrame(data)
BuildDf2 ==
    /\ pc = "df2"
    /\ df2' = Df2Value
    /\ pc' = "log_second"
    /\ UNCHANGED <<env, dotfile, handlers, sinks, callee, passwd, df, result,
                   exc, ncalls, lookups, entry, seen>>

\* logger.info("Second dataframe created")
LogSecond ==
    /\ pc = "log_second"
    /\ sinks' = LoggerLog(sinks, handlers, "INFO",
                          PyStr("Second dataframe created"))
    /\ pc' = "log_sum"
    /\ UNCHANGED <<env, dotfile, handlers, callee, passwd, df, df2, result,
                   exc, ncalls, lookups, entry, seen>>

\* logger.info(add_func(2, 3))
LogSum ==
    /\ pc = "log_sum"
    /\ sinks' = LoggerLog(sinks, handlers, "INFO", PyInt(add_func(2, 3)))
    /\ pc' = "log_df"
    /\ UNCHANGED <<env, dotfile, handlers, callee, passwd, df, df2, result,
                   exc, ncalls, lookups, entry, seen>>

\* logger.info(df)
LogDf ==
    /\ pc = "log_df"
    /\ sinks' = LoggerLog(sinks, handlers, "INFO", df)
    /\ pc' = "log_df2"
    /\ UNCHANGED <<env, dotfile, handlers, callee, passwd, df, df2, result,
                   exc, ncalls, lookups, entry, seen>>

\* logger.info(df2)
LogDf2 ==
    /\ pc = "log_df2"
    /\ sinks' = LoggerLog(sinks, handlers, "INFO", df2)
    /\ pc' = "return"
    /\ UNCHANGED <<env, dotfile, handlers, callee, passwd, df, df2, result,
                   exc, ncalls, lookups, entry, seen>>

\* The return statement left out: main() returns None.
ReturnNothing ==
    /\ pc = "return"
    /\ result' = PyNone
    /\ pc' = "returned"
    /\ UNCHANGED <<env, dotfile, handlers, sinks, callee, passwd, df, df2,
                   exc, ncalls, lookups, entry, seen>>

\* return 0
ReturnZero ==
    /\ pc = "return"
    /\ result' = PyInt(0)
    /\ pc' = "returned"
    /\ UNCHANGED <<env, dotfile, handlers, sinks, callee, passwd, df, df2,
                   exc, ncalls, lookups, entry, seen>>

\* Control is back at the caller, which has the call's return value or its
\* exception; the frame is gone.  A finished main() call is recorded with
\* the state it was entered in.
Finish ==
    /\ pc \in {"returned", "raised"}
    /\ pc' = "idle"
    /\ seen' = IF callee.fn = "main"
               THEN seen \cup {[env |-> entry.env, dotfile |-> entry.dotfile,
                                outcome |-> Outcome]}
               ELSE seen
    /\ callee' = NoCall
    /\ passwd' = PyNone
    /\ df' = PyNone
    /\ df2' = PyNone
    /\ result' = PyNone
    /\ exc' = PyNone
    /\ lookups' = 0
    /\ entry' = NoEntry
    /\ UNCHANGED <<env, dotfile, handlers, sinks, ncalls>>

MainStep ==
    \/ LoadDotenvStep
    \/ GetenvStep
    \/ CheckPasswd
    \/ LogError
    \/ RaiseOSError
    \/ LogLoaded
    \/ BuildDf
    \/ BuildDf2
    \/ LogSecond
    \/ LogSum
    \/ LogDf
    \/ LogDf2
    \/ ReturnZero

Next ==
    \/ \E k \in Keys : \E v \in ValuesOf(k) : Putenv(k, v)
    \/ \E k \in Keys : Unsetenv(k)
    \/ \E f \in Environments : WriteDotenv(f)
    \/ MainCall
    \/ MainStep
    \/ Finish

Spec == Init /\ [][Next]_vars

(* ----------------------- add_func and multiply ------------------------ *)

\* add_func(x, y) is called by a test.
AddFuncCall(x, y) ==
    /\ pc = "idle"
    /\ pc' = "add_func"
    /\ callee' = [fn |-> "add_func", args |-> <<x, y>>]
    /\ entry' = [env |-> env, dotfile |-> dotfile,
                 mark |-> Len(sinks["console"])]
    /\ UNCHANGED <<env, dotfile, handlers, sinks, passwd, df, df2, result,
                   exc, ncalls, lookups, seen>>

\* return x + y
AddFuncReturn ==
    /\ pc = "add_func"
    /\ result' = PyInt(add_func(callee.args[1], callee.args[2]))
    /\ pc' = "returned"
    /\ UNCHANGED <<env, dotfile, handlers, sinks, callee, passwd, df, df2,
                   exc, ncalls, lookups, entry, seen>>

\* multiply(a, b) is called by a test.
MultiplyCall(a, b) ==
    /\ pc = "idle"
    /\ pc' = "multiply"
    /\ callee' = [fn |-> "multiply", args |-> <<a, b>>]
    /\ entry' = [env |-> env, dotfile |-> dotfile,
                 mark |-> Len(sinks["console"])]
    /\ UNCHANGED <<env, dotfile, handlers, sinks, passwd, df, df2, result,
                   exc, ncalls, lookups, seen>>

\* return a * b
MultiplyReturn ==
    /\ pc = "multiply"
    /\ result' = PyInt(multiply(callee.args[1], callee.args[2]))
    /\ pc' = "returned"
    /\ UNCHANGED <<env, dotfile, handlers, sinks, callee, passwd, df, df2,
                   exc, ncalls, lookups, entry, seen>>

\* The helpers are exercised from the state the tests call them in: no .env
\* file, PASSWORD defined or not.
InitArith ==
    /\ env \in {e \in Environments : DOMAIN e \subseteq {"PASSWORD"}}
    /\ dotfile = <<>>
    /\ InitState

NextArith ==
    \/ \E x \in Ints : \E y \in Ints : AddFuncCall(x, y)
    \/ AddFuncReturn
    \/ \E a \in Ints : \E b \in Ints : MultiplyCall(a, b)
    \/ MultiplyReturn
    \/ MainCall
    \/ MainStep
    \/ Finish

SpecArith == InitArith /\ [][NextArith]_vars


(* ----------------------------- properties ----------------------------- *)

InMain == callee.fn = "main"

\* main() has made its lookup (line 42); the environment does not change
\* from here to the end of the call.
AfterLookup == InMain /\ pc \notin {"idle", "load_dotenv", "getenv"}

FailurePcs == {"log_error", "raise", "raised"}

SuccessPcs == {"log_loaded", "df", "df2", "log_second", "log_sum", "log_df",
               "log_df2", "return", "returned"}

Finished == pc \in {"returned", "raised"}

PasswordDefined == "PASSWORD" \in DOMAIN env

ErrorRecord == [level |-> "ERROR",
                msg |-> "PASSWORD environment variable not set"]

InfoRecords == <<[level |-> "INFO", msg |-> "Password loaded"],
                 [level |-> "INFO", msg |-> "Second dataframe created"],
                 [level |-> "INFO", msg |-> "5"],
                 [level |-> "INFO", msg |-> "DataFrame[3x3]"],
                 [level |-> "INFO", msg |-> "DataFrame[4x3]"]>>

Levels(records) == {records[i].level : i \in DOMAIN records}

\* C1: whenever PASSWORD is undefined at the lookup, main() returns no
\* value: it never enters the success branch, and when it ends it has
\* raised OSError("PASSWORD environment variable not set").
C1_AbsentRaisesOSError ==
    (AfterLookup /\ ~PasswordDefined) =>
        /\ result = PyNone
        /\ pc \in {"check"} \cup FailurePcs
        /\ Finished =>
              /\ pc = "raised"
              /\ exc = [type |-> "OSError",
                        msg |-> "PASSWORD environment variable not set"]

C1_Witness ==
    /\ InMain
    /\ pc = "raised"
    /\ ~PasswordDefined
    /\ exc = [type |-> "OSError",
              msg |-> "PASSWORD environment variable not set"]

\* C2: whenever PASSWORD is defined at the lookup, whatever its value,
\* main() raises nothing, never enters the failure branch, always has a
\* next statement to run until it has returned, and returns 0.
C2_PresentReturnsZero ==
    (AfterLookup /\ PasswordDefined) =>
        /\ exc = PyNone
        /\ pc \in {"check"} \cup SuccessPcs
        /\ pc # "returned" => ENABLED MainStep
        /\ pc = "returned" => result = PyInt(0)

C2_Witness ==
    /\ InMain
    /\ pc = "returned"
    /\ PasswordDefined
    /\ result = PyInt(0)

\* C3, as stated: with PASSWORD defined as v, the call returns v itself to
\* its caller.
C3_ReturnsTheValue ==
    (InMain /\ pc = "returned" /\ PasswordDefined) =>
        /\ result.type = "str"
        /\ result.val = env["PASSWORD"]

\* C3, amended: with PASSWORD defined as v, the lookup yields v itself,
\* which main() holds in its local passwd to the end of the call; the value
\* main() returns to its caller is 0.
C3_ValueLookedUpZeroReturned ==
    (AfterLookup /\ PasswordDefined) =>
        /\ passwd = [type |-> "str", val |-> env["PASSWORD"]]
        /\ pc = "returned" => result = PyInt(0)

C3_Witness ==
    /\ InMain
    /\ pc = "returned"
    /\ PasswordDefined
    /\ env["PASSWORD"] = "secret"
    /\ passwd = PyStr("secret")
    /\ result = PyInt(0)

C5_FailFast ==
    (InMain /\ pc \in FailurePcs) =>
        /\ pc \in {"raise", "raised"} => Emitted = <<ErrorRecord>>
        /\ pc = "log_error" => Emitted = <<>>
        /\ exc # PyNone => pc = "raised"
        /\ df = PyNone
        /\ df2 = PyNone
        /\ result = PyNone
        /\ "INFO" \notin Levels(Emitted)
        /\ pc = "raised" => ~ENABLED MainStep

C5_Witness ==
    /\ InMain
    /\ pc = "raise"
    /\ exc = PyNone
    /\ Emitted = <<ErrorRecord>>

\* C6: any two calls of main() entered with the same environment and the
\* same .env content have the same outcome (the same return value or the
\* same error) and emit the same records, however many calls and changes
\* of the environment lie between them; the logger's handler list is the
\* one the module set up.
C6_SameStateSameOutcome ==
    /\ \A a \in seen : \A b \in seen :
          (a.env = b.env /\ a.dotfile = b.dotfile) => a.outcome = b.outcome
    /\ (InMain /\ Finished) =>
          \A a \in seen :
             (a.env = entry.env /\ a.dotfile = entry.dotfile)
                => a.outcome = Outcome
    /\ handlers = <<"console", "file">>

C6_Witness ==
    /\ InMain
    /\ Finished
    /\ ncalls = 2
    /\ \E a \in seen :
          /\ a.env = entry.env
          /\ a.dotfile = entry.dotfile
          /\ a.outcome = Outcome

\* The state of the check in the running invocation.
CheckState ==
    CASE InMain /\ pc \in {"load_dotenv", "getenv", "check"} -> "Unchecked"
      [] InMain /\ pc \in SuccessPcs -> "Validated"
      [] InMain /\ pc \in FailurePcs -> "Failed"
      [] OTHER -> "NoInvocation"

\* C7: within one invocation the check leaves Unchecked only for Validated
\* (PASSWORD defined) or Failed (PASSWORD undefined); Validated and Failed
\* are left only by the invocation ending; the invocation makes one lookup
\* at most.
C7_TwoOutcomes ==
    [][/\ lookups' <= 1
       /\ CheckState = "Unchecked" =>
             /\ CheckState' \in {"Unchecked", "Validated", "Failed"}
             /\ CheckState' = "Validated" => PasswordDefined
             /\ CheckState' = "Failed" => ~PasswordDefined
       /\ CheckState = "Validated" =>
             /\ CheckState' \in {"Validated", "NoInvocation"}
             /\ lookups' = lookups \/ CheckState' = "NoInvocation"
       /\ CheckState = "Failed" =>
             /\ CheckState' \in {"Failed", "NoInvocation"}
             /\ lookups' = lookups \/ CheckState' = "NoInvocation"
      ]_vars

C7_Witness ==
    /\ CheckState = "Failed"
    /\ pc = "raised"
    /\ lookups = 1
    /\ ncalls = 2

\* C8, as stated: a call leaves every key/value pair of the environment as
\* it was before the call.
C8_EnvironmentReadOnly ==
    InMain => env = entry.env

\* C8, amended: the lookup and every later statement leave the environment
\* as it is, but the loading step before them does not: it sets every key
\* the .env file defines to the file's value, adding the key when it was
\* undefined and overwriting it when its value differed; a key the file
\* does not define is left as it was, and no key is removed.
C8_OnlyTheLoadWrites ==
    InMain =>
        /\ pc = "load_dotenv" => env = entry.env
        /\ pc # "load_dotenv" =>
              /\ DOMAIN env = DOMAIN entry.env \cup DOMAIN dotfile
              /\ \A k \in DOMAIN dotfile : env[k] = dotfile[k]
              /\ \A k \in DOMAIN entry.env \ DOMAIN dotfile :
                    env[k] = entry.env[k]

C8_Witness ==
    /\ InMain
    /\ Finished
    /\ "PASSWORD" \in DOMAIN entry.env
    /\ "PASSWORD" \in DOMAIN dotfile
    /\ entry.env["PASSWORD"] # dotfile["PASSWORD"]
    /\ env["PASSWORD"] = dotfile["PASSWORD"]

\* C9: for all integers x, y of the range, add_func(x, y) returns x + y and
\* multiply(x, y) returns x * y, neither emitting a log record nor changing
\* the environment; the third record a successful main() emits is the sum
\* of 2 and 3, "5".
C9_Arithmetic ==
    /\ (pc = "returned" /\ callee.fn = "add_func") =>
          /\ result = [type |-> "int", val |-> callee.args[1] + callee.args[2]]
          /\ Emitted = <<>>
          /\ env = entry.env
    /\ (pc = "returned" /\ callee.fn = "multiply") =>
          /\ result = [type |-> "int", val |-> callee.args[1] * callee.args[2]]
          /\ Emitted = <<>>
          /\ env = entry.env
    /\ (InMain /\ pc = "returned") =>
          Emitted[3] = [level |-> "INFO", msg |-> "5"]

C9_Witness ==
    /\ pc = "returned"
    /\ callee = [fn |-> "add_func", args |-> <<2, 3>>]
    /\ result = PyInt(5)

\* C10: a finished call has failed if and only if PASSWORD is undefined,
\* and has returned if and only if it is defined; PASSWORD defined as the
\* empty string gives the outcome of any other value: "Password loaded" at
\* INFO, return value 0, no error.
C10_DefinedNotContent ==
    (InMain /\ Finished) =>
        /\ pc = "raised" <=> ~PasswordDefined
        /\ pc = "returned" <=> PasswordDefined
        /\ PasswordDefined =>
              /\ result = PyInt(0)
              /\ exc = PyNone
              /\ Emitted[1] = [level |-> "INFO", msg |-> "Password loaded"]
              /\ "ERROR" \notin Levels(Emitted)

C10_Witness ==
    /\ InMain
    /\ pc = "returned"
    /\ PasswordDefined
    /\ env["PASSWORD"] = ""
    /\ passwd = PyStr("")
    /\ result = PyInt(0)

=============================================================================
